---- MODULE Spec2Model ----
(***************************************************************************)
(* Model of backend/4broadcast_txbtc4.py: the pending-record store, the    *)
(* record validator, the raw broadcaster, the fallback signer-broadcaster  *)
(* and main, the orchestrator that sequences them.                         *)
(*                                                                         *)
(* A JSON value read from the pending file is modelled by its Python       *)
(* behaviour: its truthiness, whether "name in value" works and what it    *)
(* answers, and whether value["name"] works.                               *)
(***************************************************************************)
EXTENDS Integers, Sequences, FiniteSets, TLC

\* ---------------------------------------------------------------- bounds
\* number of invocations of main that a behaviour may contain
MaxRuns == 2
\* longest HTTP response body, in characters
MaxBodyLen == 2

\* ------------------------------------------------------ program constants
\* Decimal(100_000_000) has eight zeros: the divisor is 10^SatDigits
SatDigits == 8
\* precision of the default decimal context used by Decimal division
DecimalPrec == 28
\* the only status code broadcast_raw_transaction treats as success
StatusOK == 200

\* ------------------------------------------------------------ text values
Whitespace == {" "}
Chars == {" ", "a"}

RECURSIVE SeqsUpTo(_, _)
SeqsUpTo(S, n) ==
    IF n = 0 THEN {<<>>}
    ELSE LET shorter == SeqsUpTo(S, n - 1)
         IN  shorter \cup {Append(s, c) : s \in shorter, c \in S}

\* the response bodies the endpoint may answer with
Bodies == SeqsUpTo(Chars, MaxBodyLen)

RECURSIVE LStrip(_)
LStrip(s) ==
    IF s = <<>> THEN s
    ELSE IF Head(s) \in Whitespace THEN LStrip(Tail(s)) ELSE s

RECURSIVE RStrip(_)
RStrip(s) ==
    IF s = <<>> THEN s
    ELSE IF s[Len(s)] \in Whitespace THEN RStrip(SubSeq(s, 1, Len(s) - 1)) ELSE s

\* str.strip(): removes the leading and the trailing whitespace
Strip(s) == RStrip(LStrip(s))

\* an optional string: None, or a str (possibly empty)
None == [isNone |-> TRUE, text |-> <<>>]
Str(s) == [isNone |-> FALSE, text |-> s]
\* the cleanup done whatever the broadcast returned
TruthyStr_Always(o) == TRUE
\* the test "if txid:": None and "" are falsy
TruthyStr(o) == ~o.isNone /\ o.text # <<>>

\* -------------------------------------------------------- decimal amounts
\* A non-negative integer is the sequence of its decimal digits, most
\* significant first; a Decimal is a coefficient and an exponent.
RECURSIVE Zeros(_)
Zeros(n) == IF n <= 0 THEN <<>> ELSE <<0>> \o Zeros(n - 1)

RECURSIVE TrailingZeros(_)
TrailingZeros(d) ==
    IF Len(d) <= 1 THEN 0
    ELSE IF d[Len(d)] = 0 THEN 1 + TrailingZeros(SubSeq(d, 1, Len(d) - 1)) ELSE 0

Min(a, b) == IF a < b THEN a ELSE b

RECURSIVE AllZero(_)
AllZero(d) == d = <<>> \/ (Head(d) = 0 /\ AllZero(Tail(d)))

\* d + 1 on digit sequences, with carry
RECURSIVE Increment(_)
Increment(d) ==
    IF d = <<>> THEN <<1>>
    ELSE IF d[Len(d)] < 9 THEN [d EXCEPT ![Len(d)] = @ + 1]
    ELSE Append(Increment(SubSeq(d, 1, Len(d) - 1)), 0)

\* Decimal._fix under the default context: a coefficient longer than the
\* precision is rounded half-even to DecimalPrec digits
Fix(coef, exp) ==
    IF Len(coef) <= DecimalPrec THEN [coef |-> coef, exp |-> exp]
    ELSE LET kept    == SubSeq(coef, 1, DecimalPrec)
             dropped == SubSeq(coef, DecimalPrec + 1, Len(coef))
             half    == Head(dropped) = 5 /\ AllZero(Tail(dropped))
             up      == \/ Head(dropped) > 5
                        \/ Head(dropped) = 5 /\ ~AllZero(Tail(dropped))
                        \/ half /\ kept[DecimalPrec] % 2 = 1
             rounded == IF up THEN Increment(kept) ELSE kept
             e       == exp + Len(dropped)
         IN  IF Len(rounded) > DecimalPrec
             THEN [coef |-> SubSeq(rounded, 1, DecimalPrec), exp |-> e + 1]
             ELSE [coef |-> rounded, exp |-> e]

\* Decimal(satoshis) / Decimal(100_000_000): the quotient has the dividend's
\* digits and exponent -8, is brought as close to the ideal exponent 0 as
\* its trailing zeros allow, and is then rounded to the context precision
\* a divisor of ten million instead of a hundred million
satoshis_to_btc_TenMillion(satoshis) ==
    LET z == Min(TrailingZeros(satoshis), SatDigits)
    IN  Fix(SubSeq(satoshis, 1, Len(satoshis) - z), z - (SatDigits - 1))
satoshis_to_btc(satoshis) ==
    LET z == Min(TrailingZeros(satoshis), SatDigits)
    IN  Fix(SubSeq(satoshis, 1, Len(satoshis) - z), z - SatDigits)

\* the number of satoshis a Decimal amount stands for: amount * 10^8, as
\* digits (defined for exponents of at least -8, which is all that
\* satoshis_to_btc produces)
RECURSIVE StripLeadingZeros(_)
StripLeadingZeros(d) ==
    IF Len(d) > 1 /\ Head(d) = 0 THEN StripLeadingZeros(Tail(d)) ELSE d

InSatoshis(dec) == StripLeadingZeros(dec.coef \o Zeros(dec.exp + SatDigits))

\* format(amount, ".8f"): integer digits and eight fractional digits
FormatF8(dec) ==
    LET all    == InSatoshis(dec)
        padded == Zeros(SatDigits + 1 - Len(all)) \o all
        n      == Len(padded)
    IN  [int |-> SubSeq(padded, 1, n - SatDigits), frac |-> SubSeq(padded, n - SatDigits + 1, n)]

\* ------------------------------------------------------------ JSON values
\* What json.loads may return.  kind "dict" is a JSON object, kind "seq" a
\* JSON array or string ("name in value" answers, value["name"] raises
\* TypeError), kind "scalar" a number, a boolean or null ("name in value"
\* raises TypeError).  has is the set of names for which "name in value"
\* holds; truthy is bool(value).
TopNames == {"transaction", "private_key_wif", "address", "raw_transaction_hex"}
TxNames == {"from_address", "to_address", "amount_sats", "fee_sats"}

\* the amounts a record may carry, as digits: 0, 1, 1000, 150000, 10^8,
\* 10^27 + 1 (28 digits) and 10^28 + 1 (29 digits)
Amounts ==
    { <<0>>, <<1>>, <<1, 0, 0, 0>>, <<1, 5, 0, 0, 0, 0>>, <<1>> \o Zeros(SatDigits),
      <<1>> \o Zeros(DecimalPrec - 2) \o <<1>>, <<1>> \o Zeros(DecimalPrec - 1) \o <<1>> }

\* amount_sats is a JSON integer, or a value Decimal() rejects ("abc", null)
NonNumeric == [numeric |-> FALSE, digits |-> <<0>>]
AmountVals == {[numeric |-> TRUE, digits |-> d] : d \in Amounts} \cup {NonNumeric}

\* fee_sats, when present
Fees == {0, 500}

\* private_key_wif: "K" is a key PrivateKeyTestnet accepts, "bad" one it rejects
Wifs == {"K", "bad"}
ValidWifs == {"K"}

\* raw_transaction_hex, when present: the empty string or a payload
Raws == {"", "deadbeef"}

NullTx ==
    [kind |-> "scalar", has |-> {}, from_address |-> "A", to_address |-> "B",
     amount_sats |-> NonNumeric, fee_sats |-> 0]

TxVals ==
    { t \in [kind : {"dict"}, has : SUBSET TxNames, from_address : {"A"},
             to_address : {"B"}, amount_sats : AmountVals, fee_sats : Fees] :
        /\ "amount_sats" \notin t.has => t.amount_sats = NonNumeric
        /\ "fee_sats" \notin t.has => t.fee_sats = 0 }
    \cup {NullTx}
    \cup {[NullTx EXCEPT !.kind = "seq", !.has = h] :
            h \in {{}, {"from_address", "to_address", "amount_sats"}}}

NullJSON ==
    [kind |-> "scalar", truthy |-> FALSE, has |-> {}, transaction |-> NullTx,
     private_key_wif |-> "K", raw_transaction_hex |-> ""]

JSONValues ==
    { v \in [kind : {"dict"}, truthy : BOOLEAN, has : SUBSET TopNames,
             transaction : TxVals, private_key_wif : Wifs,
             raw_transaction_hex : Raws] :
        /\ v.has # {} => v.truthy
        /\ "transaction" \notin v.has => v.transaction = NullTx
        /\ "private_key_wif" \notin v.has => v.private_key_wif = "K"
        /\ "raw_transaction_hex" \notin v.has => v.raw_transaction_hex = "" }
    \cup {NullJSON, [NullJSON EXCEPT !.truthy = TRUE]}
    \cup {[NullJSON EXCEPT !.kind = "seq"]}
    \cup {[NullJSON EXCEPT !.kind = "seq", !.truthy = TRUE, !.has = h] :
            h \in {{"address"}, {"transaction", "private_key_wif", "address"}}}

\* the pending file: absent, or present with content that parses or not
NoFile == [exists |-> FALSE, parses |-> FALSE, value |-> NullJSON]
Garbage == [exists |-> TRUE, parses |-> FALSE, value |-> NullJSON]
Files ==
    {NoFile, Garbage} \cup {[exists |-> TRUE, parses |-> TRUE, value |-> v] : v \in JSONValues}

\* a line of output: what is reported, and the field or value it names
Msg(m, a) == [msg |-> m, arg |-> a]

\* --------------------------------------------------- pending-record store
\* load_pending_transaction: the loaded value (None when the file is absent
\* or does not parse) and what is printed
load_pending_transaction(f) ==
    IF ~f.exists
    THEN [isNone |-> TRUE, value |-> NullJSON, printed |-> <<Msg("No pending transaction", "")>>]
    ELSE IF ~f.parses
    THEN [isNone |-> TRUE, value |-> NullJSON, printed |-> <<Msg("Error loading", "")>>]
    ELSE [isNone |-> FALSE, value |-> f.value, printed |-> <<>>]

\* -------------------------------------------------------- record validator
\* a validator that forgets the address
required_NoAddress == <<"transaction", "private_key_wif">>
required == <<"transaction", "private_key_wif", "address">>
txRequired == <<"from_address", "to_address", "amount_sats">>

\* the loop "for r in names: if r not in container: print(...); return False"
RECURSIVE CheckFields(_, _, _)
CheckFields(names, container, i) ==
    IF i > Len(names) THEN [outcome |-> "pass", field |-> ""]
    ELSE IF container.kind = "scalar" THEN [outcome |-> "TypeError", field |-> ""]
    ELSE IF names[i] \notin container.has THEN [outcome |-> "missing", field |-> names[i]]
    ELSE CheckFields(names, container, i + 1)

\* verify_transaction_data: outcome "True", "False" or the exception raised
verify_transaction_data(tx_data) ==
    LET top == CheckFields(required, tx_data, 1)
    IN  IF top.outcome = "missing"
        THEN [outcome |-> "False", printed |-> <<Msg("Missing field", top.field)>>]
        ELSE IF top.outcome = "TypeError" \/ tx_data.kind # "dict"
        THEN [outcome |-> "TypeError", printed |-> <<>>]
        ELSE LET nested == CheckFields(txRequired, tx_data.transaction, 1)
             IN  IF nested.outcome = "missing"
                 THEN [outcome |-> "False",
                       printed |-> <<Msg("Transaction missing", nested.field)>>]
                 ELSE IF nested.outcome = "TypeError"
                 THEN [outcome |-> "TypeError", printed |-> <<>>]
                 ELSE [outcome |-> "True", printed |-> <<>>]

\* ---------------------------------------------------------- raw broadcaster
\* what requests.post may do: answer with a status and a body, or raise a
\* requests.RequestException (connectivity, timeout, malformed response)
Statuses == {200, 201, 500}
NoResponse == [kind |-> "none", status |-> 0, text |-> <<>>]
HttpOutcomes ==
    {[kind |-> "RequestException", status |-> 0, text |-> <<>>]}
    \cup {[kind |-> "response", status |-> st, text |-> b] : st \in Statuses, b \in Bodies}

\* the test "response.status_code == 200"
StatusAccepted(status) == status = StatusOK

\* broadcast_raw_transaction, given what requests.post did
broadcast_raw_transaction(http) ==
    IF http.kind = "RequestException"
    THEN [txid |-> None, printed |-> <<Msg("Network error", "")>>]
    ELSE IF StatusAccepted(http.status)
    THEN [txid |-> Str(Strip(http.text)),
          printed |-> <<Msg("Raw transaction broadcasted", "")>>]
    ELSE [txid |-> None, printed |-> <<Msg("Broadcast failed", "status")>>]

\* ------------------------------------------------ fallback signer-broadcaster
\* what key.send may do: return an identifier, or raise
Ids == {<<>>, <<"a">>}
SendOutcomes ==
    {[kind |-> "raised", id |-> <<>>]} \cup {[kind |-> "returned", id |-> i] : i \in Ids}

\* tx.get("fee_sats"): None when the key is absent
NoFee == [isNone |-> TRUE, value |-> 0]
GetFee(tx) ==
    IF "fee_sats" \in tx.has THEN [isNone |-> FALSE, value |-> tx.fee_sats] ELSE NoFee

\* the test "if fee_sats is not None:"
TruthyFee_NotNone(fee) == ~fee.isNone
\* the test "if fee_sats:": None and 0 are falsy
TruthyFee(fee) == ~fee.isNone /\ fee.value # 0

\* an output that pays the sender
SendCall_ToSender(wif, transaction, fee_sats) ==
    [key |-> wif,
     to |-> transaction.from_address,
     amount |-> satoshis_to_btc(transaction.amount_sats.digits),
     unit |-> "btc",
     fee |-> IF ~fee_sats.isNone /\ fee_sats.value # 0
             THEN [given |-> TRUE, value |-> fee_sats.value, absolute_fee |-> TRUE]
             ELSE [given |-> FALSE, value |-> 0, absolute_fee |-> FALSE]]
\* one call of key.send: the key, the single output and the fee arguments
SendCall(wif, transaction, fee_sats) ==
    [key |-> wif,
     to |-> transaction.to_address,
     amount |-> satoshis_to_btc(transaction.amount_sats.digits),
     unit |-> "btc",
     fee |-> IF TruthyFee(fee_sats)
             THEN [given |-> TRUE, value |-> fee_sats.value, absolute_fee |-> TRUE]
             ELSE [given |-> FALSE, value |-> 0, absolute_fee |-> FALSE]]

\* a fallback that goes on to key.send after the key failed to load
python_fallback_broadcast_NoEarlyReturn(transaction, wif, fee_sats, send) ==
    LET call == [key |-> wif, to |-> transaction.to_address,
                 amount |-> satoshis_to_btc(transaction.amount_sats.digits), unit |-> "btc",
                 fee |-> [given |-> FALSE, value |-> 0, absolute_fee |-> FALSE]]
    IN  IF send.kind = "raised"
        THEN [txid |-> None, sends |-> <<call>>,
              printed |-> <<Msg("Could not load WIF", ""),
                            Msg("Python signing/broadcast failed", "")>>]
        ELSE [txid |-> Str(send.id), sends |-> <<call>>,
              printed |-> <<Msg("Could not load WIF", ""),
                            Msg("Broadcasted via bit library", "")>>]

\* python_fallback_broadcast, given what key.send does when it is called
python_fallback_broadcast(transaction, wif, fee_sats, send) ==
    IF wif \notin ValidWifs
    THEN [txid |-> None, sends |-> <<>>, printed |-> <<Msg("Could not load WIF", "")>>]
    ELSE LET call == SendCall(wif, transaction, fee_sats)
         IN  IF send.kind = "raised"
             THEN [txid |-> None, sends |-> <<call>>,
                   printed |-> <<Msg("Broadcasting via bit library", ""),
                                 Msg("Python signing/broadcast failed", "")>>]
             ELSE [txid |-> Str(send.id), sends |-> <<call>>,
                   printed |-> <<Msg("Broadcasting via bit library", ""),
                                 Msg("Broadcasted via bit library", "")>>]

\* ------------------------------------------------------------------ cleanup
\* cleanup_pending: PENDING_FILE.unlink() removes the file, or raises (the
\* file is already gone, or the removal is refused) and the error is swallowed
\* a cleanup that turns a failed removal into a reported failure
cleanup_pending_Reports(f, unlinkOK) ==
    IF f.exists /\ unlinkOK
    THEN [file |-> NoFile, printed |-> <<Msg("Removed pending file", "")>>]
    ELSE [file |-> f, printed |-> <<Msg("Broadcast failed", "")>>]
cleanup_pending(f, unlinkOK) ==
    IF f.exists /\ unlinkOK
    THEN [file |-> NoFile, printed |-> <<Msg("Removed pending file", "")>>]
    ELSE [file |-> f, printed |-> <<>>]

\* -------------------------------------------------------------------- state
\* the processes that may run main; the first specification runs them one
\* after the other
Procs == {"p1", "p2"}

VARIABLES
    file,          \* the pending file
    runs,          \* invocations of main so far
    priorSuccess,  \* a broadcast path returned an identifier in an earlier run
    pc,            \* where each process is in main
    tx_data,       \* main's tx_data: what load_pending_transaction returned
    before,        \* the pending file as it was when the run began
    response,      \* what the endpoint answered to this run's submission
    raw_txid,      \* what broadcast_raw_transaction returned
    fb_txid,       \* what python_fallback_broadcast returned
    calls,         \* how often the run called each operation
    sends,         \* the calls of key.send made by the run
    printed,       \* the run's diagnostics, in order
    exc            \* the exception that left main, "" when none did

vars == <<file, runs, priorSuccess, pc, tx_data, before, response, raw_txid,
          fb_txid, calls, sends, printed, exc>>

NoCalls == [load |-> 0, verify |-> 0, post |-> 0, fallback |-> 0, unlink |-> 0]
NoData == [isNone |-> TRUE, value |-> NullJSON]

Running(p) == pc[p] \in {"load", "verify", "details", "raw", "fallback"}
Exited(p) == pc[p] \in {"done", "raised"}

\* a broadcast path of the run returned an identifier rather than None
ReturnedId(p) == ~raw_txid[p].isNone \/ ~fb_txid[p].isNone

Init ==
    /\ file \in Files
    /\ runs = 0
    /\ priorSuccess = FALSE
    /\ pc = [p \in Procs |-> "idle"]
    /\ tx_data = [p \in Procs |-> NoData]
    /\ before = [p \in Procs |-> NoFile]
    /\ response = [p \in Procs |-> NoResponse]
    /\ raw_txid = [p \in Procs |-> None]
    /\ fb_txid = [p \in Procs |-> None]
    /\ calls = [p \in Procs |-> NoCalls]
    /\ sends = [p \in Procs |-> <<>>]
    /\ printed = [p \in Procs |-> <<>>]
    /\ exc = [p \in Procs |-> ""]

\* a process is started and enters main; the processes that have exited are
\* gone, and what is remembered of them is whether one broadcast
Begin(p) ==
    /\ ~Running(p)
    /\ runs < MaxRuns
    /\ runs' = runs + 1
    /\ priorSuccess' = (priorSuccess \/ \E q \in Procs : Exited(q) /\ ReturnedId(q))
    /\ pc' = [q \in Procs |-> IF q = p THEN "load" ELSE IF Running(q) THEN pc[q] ELSE "idle"]
    /\ tx_data' = [q \in Procs |-> IF Running(q) /\ q # p THEN tx_data[q] ELSE NoData]
    /\ before' = [q \in Procs |-> IF q = p THEN file
                                  ELSE IF Running(q) THEN before[q] ELSE NoFile]
    /\ response' = [q \in Procs |-> IF Running(q) /\ q # p THEN response[q] ELSE NoResponse]
    /\ raw_txid' = [q \in Procs |-> IF Running(q) /\ q # p THEN raw_txid[q] ELSE None]
    /\ fb_txid' = [q \in Procs |-> IF Running(q) /\ q # p THEN fb_txid[q] ELSE None]
    /\ calls' = [q \in Procs |-> IF Running(q) /\ q # p THEN calls[q] ELSE NoCalls]
    /\ sends' = [q \in Procs |-> IF Running(q) /\ q # p THEN sends[q] ELSE <<>>]
    /\ printed' = [q \in Procs |-> IF Running(q) /\ q # p THEN printed[q] ELSE <<>>]
    /\ exc' = [q \in Procs |-> IF Running(q) /\ q # p THEN exc[q] ELSE ""]
    /\ UNCHANGED file

\* a start that waits until no other process is running, as a lock would
Invoke_Exclusive(p) ==
    /\ \A q \in Procs : ~Running(q)
    /\ Begin(p)
\* the program takes no lock: a process starts whatever the others are doing
Invoke(p) == Begin(p)

\* main, lines 105-107: load the record; stop when there is nothing to broadcast
Load(p) ==
    /\ pc[p] = "load"
    /\ LET r == load_pending_transaction(file)
       IN  /\ tx_data' = [tx_data EXCEPT ![p] = [isNone |-> r.isNone, value |-> r.value]]
           /\ printed' = [printed EXCEPT ![p] = @ \o r.printed]
           /\ pc' = [pc EXCEPT ![p] = IF r.isNone \/ ~r.value.truthy THEN "done" ELSE "verify"]
    /\ calls' = [calls EXCEPT ![p].load = @ + 1]
    /\ UNCHANGED <<file, runs, priorSuccess, before, response, raw_txid, fb_txid, sends, exc>>

\* main, lines 109-110: validate the record
Verify(p) ==
    /\ pc[p] = "verify"
    /\ LET v == verify_transaction_data(tx_data[p].value)
       IN  /\ printed' = [printed EXCEPT ![p] = @ \o v.printed]
           /\ pc' = [pc EXCEPT ![p] = CASE v.outcome = "True" -> "details"
                                        [] v.outcome = "False" -> "done"
                                        [] OTHER -> "raised"]
           /\ exc' = [exc EXCEPT ![p] = IF v.outcome \in {"True", "False"} THEN "" ELSE v.outcome]
    /\ calls' = [calls EXCEPT ![p].verify = @ + 1]
    /\ UNCHANGED <<file, runs, priorSuccess, tx_data, before, response, raw_txid, fb_txid, sends>>

\* main, lines 112-122: print the transaction details; indexing a transaction
\* that is not an object, or converting an amount Decimal() rejects, raises
Details(p) ==
    /\ pc[p] = "details"
    /\ LET tx == tx_data[p].value.transaction
       IN  IF tx.kind # "dict"
           THEN /\ pc' = [pc EXCEPT ![p] = "raised"]
                /\ exc' = [exc EXCEPT ![p] = "TypeError"]
                /\ UNCHANGED printed
           ELSE IF ~tx.amount_sats.numeric
           THEN /\ pc' = [pc EXCEPT ![p] = "raised"]
                /\ exc' = [exc EXCEPT ![p] = "InvalidOperation"]
                /\ printed' = [printed EXCEPT ![p] = Append(@, Msg("Transaction Details", ""))]
           ELSE /\ pc' = [pc EXCEPT ![p] = "raw"]
                /\ printed' = [printed EXCEPT ![p] = Append(@, Msg("Transaction Details", ""))]
                /\ UNCHANGED exc
    /\ UNCHANGED <<file, runs, priorSuccess, tx_data, before, response, raw_txid, fb_txid,
                   calls, sends>>

\* tx_data.get("raw_transaction_hex"): None when the key is absent
GetRaw(v) ==
    IF "raw_transaction_hex" \in v.has THEN [isNone |-> FALSE, text |-> v.raw_transaction_hex]
    ELSE [isNone |-> TRUE, text |-> ""]

\* a main that never finds a raw payload
TruthyRaw_Never(v) == FALSE
\* the test 'if tx_data.get("raw_transaction_hex"):': None and "" are falsy
TruthyRaw(v) == ~GetRaw(v).isNone /\ GetRaw(v).text # ""

\* a failed submission that is tried again
AfterFailedRaw_Retry == "raw"
\* where main goes when the raw attempt gave no txid: on to the fallback
AfterFailedRaw == "fallback"

\* main, lines 125-130: when a raw payload is there, submit it; on a truthy
\* txid clean up and return, otherwise go on to the fallback
RawAttempt(p) ==
    /\ pc[p] = "raw"
    /\ IF TruthyRaw(tx_data[p].value)
       THEN \E http \in HttpOutcomes, unlinkOK \in BOOLEAN :
              LET r == broadcast_raw_transaction(http)
                  c == cleanup_pending(file, unlinkOK)
              IN  /\ response' = [response EXCEPT ![p] = http]
                  /\ raw_txid' = [raw_txid EXCEPT ![p] = r.txid]
                  /\ IF TruthyStr(r.txid)
                     THEN /\ file' = c.file
                          /\ printed' = [printed EXCEPT ![p] =
                                           Append(@, Msg("Attempting raw broadcast", ""))
                                           \o r.printed \o c.printed]
                          /\ calls' = [calls EXCEPT ![p].post = @ + 1, ![p].unlink = @ + 1]
                          /\ pc' = [pc EXCEPT ![p] = "done"]
                     ELSE /\ printed' = [printed EXCEPT ![p] =
                                           Append(@, Msg("Attempting raw broadcast", ""))
                                           \o r.printed]
                          /\ calls' = [calls EXCEPT ![p].post = @ + 1]
                          /\ pc' = [pc EXCEPT ![p] = AfterFailedRaw]
                          /\ UNCHANGED file
       ELSE /\ pc' = [pc EXCEPT ![p] = "fallback"]
            /\ UNCHANGED <<file, response, raw_txid, printed, calls>>
    /\ UNCHANGED <<runs, priorSuccess, tx_data, before, fb_txid, sends, exc>>

\* main, lines 133-140: the fallback; on a truthy txid clean up
Fallback(p) ==
    /\ pc[p] = "fallback"
    /\ \E send \in SendOutcomes, unlinkOK \in BOOLEAN :
         LET v == tx_data[p].value
             r == python_fallback_broadcast(v.transaction, v.private_key_wif,
                                            GetFee(v.transaction), send)
             c == cleanup_pending(file, unlinkOK)
         IN  /\ fb_txid' = [fb_txid EXCEPT ![p] = r.txid]
             /\ sends' = [sends EXCEPT ![p] = @ \o r.sends]
             /\ IF TruthyStr(r.txid)
                THEN /\ file' = c.file
                     /\ printed' = [printed EXCEPT ![p] =
                                      Append(@, Msg("Using Python fallback broadcast", ""))
                                      \o r.printed \o c.printed
                                      \o <<Msg("Transaction successfully broadcasted", "")>>]
                     /\ calls' = [calls EXCEPT ![p].fallback = @ + 1, ![p].unlink = @ + 1]
                ELSE /\ printed' = [printed EXCEPT ![p] =
                                      Append(@, Msg("Using Python fallback broadcast", ""))
                                      \o r.printed \o <<Msg("Broadcast failed", "")>>]
                     /\ calls' = [calls EXCEPT ![p].fallback = @ + 1]
                     /\ UNCHANGED file
    /\ pc' = [pc EXCEPT ![p] = "done"]
    /\ UNCHANGED <<runs, priorSuccess, tx_data, before, response, raw_txid, exc>>

\* invocations follow one another: a process starts when none is running
Start(p) ==
    /\ \A q \in Procs : ~Running(q)
    /\ Invoke(p)

Next ==
    \E p \in Procs :
        \/ Start(p)
        \/ Load(p)
        \/ Verify(p)
        \/ Details(p)
        \/ RawAttempt(p)
        \/ Fallback(p)

Spec == Init /\ [][Next]_vars

\* a step of a running main; every external call returns or fails, so a
\* running main always takes its next step
Step(p) == Load(p) \/ Verify(p) \/ Details(p) \/ RawAttempt(p) \/ Fallback(p)

FairSpec == Spec /\ \A p \in Procs : WF_vars(Step(p))

\* processes started at any time, also while another is running: nothing in
\* the program locks the pending file.  The records are the complete ones
\* with amount 1000 and no fee.
ConcFiles ==
    { f \in Files :
        /\ f.exists /\ f.parses
        /\ f.value.kind = "dict"
        /\ {"transaction", "private_key_wif", "address"} \subseteq f.value.has
        /\ f.value.transaction.kind = "dict"
        /\ f.value.transaction.has = {"from_address", "to_address", "amount_sats"}
        /\ f.value.transaction.amount_sats = [numeric |-> TRUE, digits |-> <<1, 0, 0, 0>>] }

InitConc == Init /\ file \in ConcFiles

NextConc == \E p \in Procs : Invoke(p) \/ Step(p)

SpecConc == InitConc /\ [][NextConc]_vars

\* ------------------------------------------------------------ vocabulary
\* the words of the claims, stated on the record and on what the run did
TopRequired == {"transaction", "private_key_wif", "address"}
NestedRequired == {"from_address", "to_address", "amount_sats"}

\* the record has every required key, top-level and nested
HasAllRequired(v) == TopRequired \subseteq v.has /\ NestedRequired \subseteq v.transaction.has

\* the record is a JSON object with the required keys whose transaction is a
\* JSON object with the required keys
StructurallyValid(v) == v.kind = "dict" /\ v.transaction.kind = "dict" /\ HasAllRequired(v)

HttpSuccess(status) == status \in 200..299

\* the endpoint answered the run's submission with an HTTP-success status
RawAccepted(p) == response[p].kind = "response" /\ HttpSuccess(response[p].status)

\* the run submitted the payload and the network did not accept it
RawFailed(p) == response[p].kind # "none" /\ ~RawAccepted(p)

Loaded(p) == ~tx_data[p].isNone

\* C1: when the record is structurally valid, carries raw_transaction_hex and
\* the endpoint answers the submission with an HTTP-success status, the run
\* never invokes the fallback signer-broadcaster.
C1_NoFallbackAfterAcceptedRaw ==
    \A p \in Procs :
        (Loaded(p) /\ StructurallyValid(tx_data[p].value) /\ RawAccepted(p))
            => calls[p].fallback = 0

\* C2: a finished run on a structurally valid record that lacks
\* raw_transaction_hex, or whose raw attempt failed, has invoked the fallback
\* exactly once.
C2_FallbackExactlyOnce ==
    \A p \in Procs :
        (/\ Exited(p)
         /\ Loaded(p)
         /\ StructurallyValid(tx_data[p].value)
         /\ ("raw_transaction_hex" \notin tx_data[p].value.has \/ RawFailed(p)))
            => calls[p].fallback = 1

\* C3: a run on a record that misses a required field makes no raw HTTP
\* submission and no call of the signing capability, and leaves the pending
\* file as it was.
C3_MissingFieldNoNetwork ==
    \A p \in Procs :
        (Loaded(p) /\ ~HasAllRequired(tx_data[p].value))
            => /\ calls[p].post = 0
               /\ calls[p].fallback = 0
               /\ sends[p] = <<>>
               /\ calls[p].unlink = 0
               /\ file = before[p]

C3_Witness ==
    \E p \in Procs :
        /\ pc[p] = "done"
        /\ Loaded(p)
        /\ tx_data[p].value.kind = "dict"
        /\ TopRequired \subseteq tx_data[p].value.has
        /\ tx_data[p].value.transaction.has = {"from_address", "amount_sats"}
        /\ printed[p] = <<Msg("Transaction missing", "to_address")>>
        /\ calls[p].verify = 1
        /\ file.exists /\ file = before[p]

\* C4: once a broadcast path has reported success in a run, a later
\* invocation finds no record: it reports the missing record and makes no
\* network call.
C4_NoRebroadcastAfterSuccess ==
    \A p \in Procs :
        (priorSuccess /\ Exited(p))
            => /\ calls[p].post = 0
               /\ sends[p] = <<>>
               /\ printed[p] = <<Msg("No pending transaction", "")>>

\* C5: in a run in which no broadcast path returns an identifier, the
\* deletion is never invoked and the pending file stays what it was before
\* the run.
C5_NoSuccessNoDelete ==
    \A p \in Procs :
        (pc[p] # "idle" /\ raw_txid[p].isNone /\ fb_txid[p].isNone)
            => calls[p].unlink = 0 /\ file = before[p]

C5_Witness ==
    \E p \in Procs :
        /\ pc[p] = "done"
        /\ calls[p].post = 1 /\ RawFailed(p)
        /\ calls[p].fallback = 1 /\ Len(sends[p]) = 1 /\ fb_txid[p].isNone
        /\ calls[p].unlink = 0
        /\ file.exists /\ file = before[p]

\* C6: the raw broadcaster returns the trimmed response body for every
\* HTTP-success (2xx) answer, and None for every other answer and for a
\* transport failure.
C6_RawResultIffHttpSuccess ==
    \A p \in Procs :
        calls[p].post = 1
            => raw_txid[p] = IF RawAccepted(p) THEN Str(Strip(response[p].text)) ELSE None

\* C7: no exception leaves load, validate, the raw broadcaster, the fallback
\* or main, whatever the pending file holds and whatever the network and the
\* signing capability do.
C7_NoExceptionPropagates == \A p \in Procs : pc[p] # "raised" /\ exc[p] = ""

\* the first required field the record misses, in the order transaction,
\* private_key_wif, address, from_address, to_address, amount_sats
FieldOrder ==
    <<"transaction", "private_key_wif", "address", "from_address", "to_address", "amount_sats">>
FieldMissing(v, i) ==
    IF i <= 3 THEN FieldOrder[i] \notin v.has ELSE FieldOrder[i] \notin v.transaction.has
FirstMissing(v) ==
    LET i == CHOOSE k \in 1..6 : FieldMissing(v, k) /\ \A j \in 1..(k - 1) : ~FieldMissing(v, j)
    IN  Msg(IF i <= 3 THEN "Missing field" ELSE "Transaction missing", FieldOrder[i])

\* C8: validate answers true exactly for the records (JSON objects) that
\* have every required key; for every other record it answers false and
\* reports one field, the first missing one.
C8_ValidateFailFast ==
    \A p \in Procs :
        (calls[p].verify = 1 /\ tx_data[p].value.kind = "dict")
            => LET v == tx_data[p].value
                   r == verify_transaction_data(v)
               IN  IF HasAllRequired(v)
                   THEN r.outcome = "True" /\ r.printed = <<>> /\ pc[p] # "raised"
                   ELSE /\ r.outcome = "False"
                        /\ r.printed = <<FirstMissing(v)>>
                        /\ pc[p] = "done"
                        /\ printed[p] = <<FirstMissing(v)>>

\* C9: a finished run on a record with transaction (and its three fields),
\* address and raw_transaction_hex but without private_key_wif has accepted
\* the record and submitted its raw payload.
C9_WifOptionalWithRaw ==
    \A p \in Procs :
        (/\ Exited(p)
         /\ Loaded(p)
         /\ tx_data[p].value.kind = "dict"
         /\ tx_data[p].value.has = {"transaction", "address", "raw_transaction_hex"}
         /\ tx_data[p].value.raw_transaction_hex # ""
         /\ tx_data[p].value.transaction.kind = "dict"
         /\ NestedRequired \subseteq tx_data[p].value.transaction.has
         /\ tx_data[p].value.transaction.amount_sats.numeric)
            => calls[p].post = 1

\* the significant digits of an amount: its digits without the trailing zeros
SigDigits(d) == Len(d) - TrailingZeros(d)

\* the amount of an output, taken back to satoshis, is the record's amount_sats
ExactOutput(p, i) ==
    InSatoshis(sends[p][i].amount) = tx_data[p].value.transaction.amount_sats.digits

\* C10 as stated: the amount of the fallback's output is the exact conversion
\* of amount_sats, for every non-negative integer amount.
C10_ExactForEveryAmount ==
    \A p \in Procs : \A i \in 1..Len(sends[p]) : ExactOutput(p, i)

\* C10 as amended: the amount of the fallback's output is the exact
\* conversion of amount_sats for every non-negative integer amount of at most
\* 28 significant digits; 150000 gives 0.00150000, 1 gives 0.00000001 and
\* 100000000 gives 1.00000000.
C10_ExactWithinPrecision ==
    \A p \in Procs : \A i \in 1..Len(sends[p]) :
        LET a   == tx_data[p].value.transaction.amount_sats.digits
            out == sends[p][i].amount
        IN  SigDigits(a) <= 28
                => /\ ExactOutput(p, i)
                   /\ a = <<1, 5, 0, 0, 0, 0>>
                        => FormatF8(out) = [int |-> <<0>>, frac |-> <<0, 0, 1, 5, 0, 0, 0, 0>>]
                   /\ a = <<1>>
                        => FormatF8(out) = [int |-> <<0>>, frac |-> <<0, 0, 0, 0, 0, 0, 0, 1>>]
                   /\ a = <<1, 0, 0, 0, 0, 0, 0, 0, 0>>
                        => FormatF8(out) = [int |-> <<1>>, frac |-> <<0, 0, 0, 0, 0, 0, 0, 0>>]

C10_Witness ==
    \E p \in Procs :
        /\ Len(sends[p]) = 1
        /\ tx_data[p].value.transaction.amount_sats.digits = <<1, 5, 0, 0, 0, 0>>
        /\ sends[p][1].amount = [coef |-> <<1, 5>>, exp |-> -4]
        /\ sends[p][1].to = "B"

\* the messages of a run, as a set
Reported(p) == {printed[p][i] : i \in 1..Len(printed[p])}

\* C11: when the fallback cannot construct the signing identity from wif, it
\* reports the error and returns None at once: key.send is never called and
\* the fallback reaches no network.
C11_BadKeyNoSend ==
    \A p \in Procs :
        (calls[p].fallback = 1 /\ tx_data[p].value.private_key_wif = "bad")
            => /\ sends[p] = <<>>
               /\ fb_txid[p] = None
               /\ Msg("Could not load WIF", "") \in Reported(p)
               /\ calls[p].unlink = 0

C11_Witness ==
    \E p \in Procs :
        /\ pc[p] = "done"
        /\ calls[p].fallback = 1
        /\ tx_data[p].value.private_key_wif = "bad"
        /\ sends[p] = <<>>
        /\ printed[p][Len(printed[p])] = Msg("Broadcast failed", "")

\* C12: the fallback calls key.send with fee=fee_sats, absolute_fee=True
\* exactly when the transaction's fee_sats is present and not zero; otherwise
\* it calls key.send without a fee.
C12_FeePassedIffNonZero ==
    \A p \in Procs : \A i \in 1..Len(sends[p]) :
        LET tx      == tx_data[p].value.transaction
            nonzero == "fee_sats" \in tx.has /\ tx.fee_sats # 0
        IN  /\ sends[p][i].fee.given = nonzero
            /\ nonzero => sends[p][i].fee.value = tx.fee_sats /\ sends[p][i].fee.absolute_fee
            /\ ~nonzero => ~sends[p][i].fee.absolute_fee

C12_Witness ==
    \E p \in Procs :
        /\ Len(sends[p]) = 1
        /\ "fee_sats" \in tx_data[p].value.transaction.has
        /\ tx_data[p].value.transaction.fee_sats = 500
        /\ sends[p][1].fee = [given |-> TRUE, value |-> 500, absolute_fee |-> TRUE]

\* C13: every finished run in which the endpoint answered the submission with
\* an HTTP-success status, or key.send returned an identifier (even an empty
\* one), has invoked the deletion.
C13_DeleteOnEverySuccess ==
    \A p \in Procs :
        (Exited(p) /\ (RawAccepted(p) \/ ~fb_txid[p].isNone)) => calls[p].unlink = 1

\* C14: every finished run on a stored record (a JSON object) that lacks a
\* required field, the record with no fields included, has reported the name
\* of the missing field.
C14_MissingFieldReported ==
    \A p \in Procs :
        (/\ Exited(p)
         /\ calls[p].load = 1
         /\ before[p].exists /\ before[p].parses
         /\ before[p].value.kind = "dict"
         /\ ~HasAllRequired(before[p].value))
            => FirstMissing(before[p].value) \in Reported(p)

\* the position of a message in the run's output, 0 when it is not there
IndexOf(p, m) ==
    IF m \in Reported(p) THEN CHOOSE i \in 1..Len(printed[p]) : printed[p][i] = m ELSE 0

\* C15: in a finished run whose validation succeeded, the raw broadcaster was
\* invoked exactly when the record contains raw_transaction_hex, and its
\* invocation precedes the fallback's.
C15_RawIffPresentAndFirst ==
    \A p \in Procs :
        (/\ Exited(p)
         /\ calls[p].verify = 1
         /\ StructurallyValid(tx_data[p].value))
            => /\ (calls[p].post = 1) <=> ("raw_transaction_hex" \in tx_data[p].value.has)
               /\ (calls[p].post = 1 /\ calls[p].fallback = 1)
                    => IndexOf(p, Msg("Attempting raw broadcast", ""))
                         < IndexOf(p, Msg("Using Python fallback broadcast", ""))

\* how far main has come
Rank(l) ==
    CASE l = "idle" -> 0
      [] l = "load" -> 1
      [] l = "verify" -> 2
      [] l = "details" -> 3
      [] l = "raw" -> 4
      [] l = "fallback" -> 5
      [] OTHER -> 6

\* C16: in one invocation of main, load, validate, the raw submission, the
\* fallback, key.send and the deletion each run at most once, main never
\* goes back to a step it has left, and every run that has begun ends
\* (cleaned up, or failed with the record kept).
C16_OnceAndTerminates ==
    /\ [](\A p \in Procs :
            /\ calls[p].load <= 1
            /\ calls[p].verify <= 1
            /\ calls[p].post <= 1
            /\ calls[p].fallback <= 1
            /\ calls[p].unlink <= 1
            /\ Len(sends[p]) <= 1)
    /\ [][\A p \in Procs : (Running(p) /\ pc'[p] # pc[p]) => Rank(pc'[p]) > Rank(pc[p])]_vars
    /\ \A p \in Procs : Running(p) ~> Exited(p)

C16_Witness ==
    \E p \in Procs :
        /\ pc[p] = "done"
        /\ calls[p] = [load |-> 1, verify |-> 1, post |-> 1, fallback |-> 1, unlink |-> 1]
        /\ Len(sends[p]) = 1
        /\ before[p].exists /\ ~file.exists

\* C17: whenever the fallback is invoked and gets to the signing capability,
\* after a failed raw attempt or without one, the capability is called once,
\* with the record's private_key_wif and one output: to transaction.to_address,
\* for amount_sats converted to the major unit (1000 gives 0.00001000).
C17_FallbackKeyAndOutput ==
    \A p \in Procs :
        calls[p].fallback = 1
            => LET v == tx_data[p].value
                   a == v.transaction.amount_sats.digits
               IN  /\ Len(sends[p]) = (IF v.private_key_wif = "K" THEN 1 ELSE 0)
                   /\ \A i \in 1..Len(sends[p]) :
                        /\ sends[p][i].key = v.private_key_wif
                        /\ sends[p][i].to = "B" /\ v.transaction.to_address = "B"
                        /\ sends[p][i].unit = "btc"
                        /\ SigDigits(a) <= 28 => InSatoshis(sends[p][i].amount) = a
                        /\ a = <<1, 0, 0, 0>>
                             => FormatF8(sends[p][i].amount)
                                  = [int |-> <<0>>, frac |-> <<0, 0, 0, 0, 1, 0, 0, 0>>]

C17_Witness ==
    \E p \in Procs :
        /\ calls[p].post = 1 /\ RawFailed(p)
        /\ calls[p].fallback = 1
        /\ tx_data[p].value.transaction.amount_sats.digits = <<1, 0, 0, 0>>
        /\ Len(sends[p]) = 1
        /\ sends[p][1].key = "K"
        /\ sends[p][1].to = "B"
        /\ sends[p][1].amount = [coef |-> <<1>>, exp |-> -5]

\* the removal was attempted and the record is still there: unlink failed
DeleteFailed(p) == calls[p].unlink = 1 /\ file.exists

\* C18: a run whose removal of the record failed after a successful broadcast
\* ends normally, raises nothing and reports no overall failure: what it
\* reports is what a run whose removal succeeded reports.
C18_DeleteFailureSwallowed ==
    \A p \in Procs :
        (Exited(p) /\ DeleteFailed(p))
            => /\ pc[p] = "done"
               /\ exc[p] = ""
               /\ Msg("Broadcast failed", "") \notin Reported(p)
               /\ calls[p].fallback = 1
                    => printed[p][Len(printed[p])] = Msg("Transaction successfully broadcasted", "")
               /\ calls[p].fallback = 0
                    => printed[p][Len(printed[p])] = Msg("Raw transaction broadcasted", "")

C18_Witness ==
    \E p \in Procs :
        /\ pc[p] = "done"
        /\ DeleteFailed(p)
        /\ file = before[p]
        /\ ~fb_txid[p].isNone /\ fb_txid[p].text # <<>>
        /\ Msg("Removed pending file", "") \notin Reported(p)

\* the process has loaded a complete record with a raw payload and is past
\* the raw attempt
PastRawWithPayload(p) ==
    /\ pc[p] \in {"fallback", "done"}
    /\ Loaded(p)
    /\ StructurallyValid(tx_data[p].value)
    /\ "raw_transaction_hex" \in tx_data[p].value.has
    /\ tx_data[p].value.raw_transaction_hex # ""

\* C19: nothing keeps two processes apart: a running main is never held up
\* by another, a process can start while another is running, and whenever two processes have both loaded the same record,
\* each of them submits it to the network, whatever the other has done to
\* the pending file meanwhile.
C19_BothSubmit ==
    /\ \A p \in Procs : Running(p) => ENABLED Step(p)
    /\ \A p \in Procs : (~Running(p) /\ runs < MaxRuns) => ENABLED Invoke(p)
    /\ \A p, q \in Procs :
         (p # q /\ PastRawWithPayload(p) /\ PastRawWithPayload(q) /\ tx_data[p] = tx_data[q])
            => calls[p].post = 1 /\ calls[q].post = 1

\* both processes loaded the record while it was there, both submitted it and
\* both submissions were accepted; one removal succeeded, the other failed
C19_Witness ==
    \E p, q \in Procs :
        /\ p # q
        /\ pc[p] = "done" /\ pc[q] = "done"
        /\ before[p].exists /\ before[p] = before[q]
        /\ tx_data[p] = tx_data[q] /\ Loaded(p)
        /\ calls[p].post = 1 /\ calls[q].post = 1
        /\ RawAccepted(p) /\ RawAccepted(q)
        /\ raw_txid[p].text # <<>> /\ raw_txid[q].text # <<>>
        /\ calls[p].unlink = 1 /\ calls[q].unlink = 1
        /\ ~file.exists

====
